---- MODULE Spec2Model ----
(***************************************************************************)
(* The experiment case selection and execution model of the follow-up      *)
(* questions manager: the persistence gateway (database.py) over the       *)
(* tables answers, followup_questions and experiment_cases, the selection  *)
(* grid of experiments_page and the batch runner run_experiment (app.py).  *)
(***************************************************************************)
EXTENDS Integers, Sequences, FiniteSets, TLC

VARIABLES
    prompts,              \* rows of table "prompts" (ids)
    questions,            \* rows of table "questions" (ids; all of the one prompt)
    users,                \* rows of table "users" (ids, in name order)
    experiments,          \* rows of table "experiments" (ids)
    answers,              \* rows of table "answers"
    followup_questions,   \* rows of table "followup_questions"
    experiment_cases,     \* rows of table "experiment_cases"
    next_id,              \* the store's id sequences, one per table
    pc,                   \* position of the session's script run
    run,                  \* locals of run_experiment
    last,                 \* what the last finished handler saw and was given
    calls,                \* gateway writes / generation calls of the current handler, in order
    env,                  \* the process environment (os.getenv)
    services,             \* what init_services returned ({} before it has)
    session_state,        \* st.session_state, as a set of <<key, value>>
    upserting             \* create_or_update_answer calls in flight, per concurrent session

vars == <<prompts, questions, users, experiments, answers, followup_questions,
          experiment_cases, next_id, pc, run, last, calls,
          env, services, session_state, upserting>>

store == <<prompts, questions, users, experiments, answers, followup_questions,
           experiment_cases, next_id>>

\* what is outside the store and the script run of the pages
host == <<env, services, session_state, upserting>>

----------------------------------------------------------------------------
(* Bounds of the model *)

\* ids the answers sequence may issue
MaxAnswerId == 3
\* case rows one experiment may have
MaxCases == 3
\* ids the followup_questions sequence may issue
MaxFollowupId == 4
\* gateway calls that may fail in one script run
MaxFaults == 1

None == "None"

\* answer texts: empty, whitespace-only, non-blank (as character sequences)
Texts == { <<>>, <<" ">>, <<"a">> }

\* the dict generate_followup_questions returns, as a set of <<key, value>>
EmptyResult == {}
GoodResult == { <<"question", "What next?">>, <<"reason", "clarify">> }
GenResults == { EmptyResult, GoodResult }
\* the dict built from a JSON object whose question is blank: the value is
\* stripped to the empty string and returned with the reason
BlankResult == { <<"question", "">>, <<"reason", "clarify">> }

----------------------------------------------------------------------------
(* Python helpers *)

\* str.strip(): drop leading and trailing whitespace
Whitespace == { " ", "\n" }

RECURSIVE LStrip(_)
LStrip(s) == IF s # <<>> /\ Head(s) \in Whitespace THEN LStrip(Tail(s)) ELSE s

RECURSIVE RStrip(_)
RStrip(s) ==
    IF s # <<>> /\ s[Len(s)] \in Whitespace THEN RStrip(SubSeq(s, 1, Len(s) - 1)) ELSE s

strip(s) == RStrip(LStrip(s))

\* 'k' in d  and  d.get(k)  for a dict kept as a set of <<key, value>>
HasKey(d, k) == \E kv \in d : kv[1] = k
Get(d, k) == IF HasKey(d, k) THEN (CHOOSE kv \in d : kv[1] = k)[2] ELSE None

\* a set of ids as the ascending sequence (ORDER BY created_at / name)
RECURSIVE Ascending(_)
Ascending(S) ==
    IF S = {} THEN <<>>
    ELSE LET m == CHOOSE x \in S : \A y \in S : x <= y
         IN <<m>> \o Ascending(S \ {m})

\* every order in which the store may return the rows of S (no ORDER BY)
Orders(S) ==
    { s \in [1..Cardinality(S) -> S] : \A i, j \in 1..Cardinality(S) : s[i] = s[j] => i = j }

----------------------------------------------------------------------------
(* Configuration and service initialisation (database.py, ai_service.py,    *)
(* app.py) and the routing of main (app.py).                                *)

\* an environment with every variable set; os.getenv gives None for a
\* variable that is not set
FullEnv ==
    [SUPABASE_URL |-> "https://db", SUPABASE_KEY |-> "key", GEMINI_API_KEY |-> "gkey",
     AUTH_USERNAME |-> "admin", AUTH_PASSWORD |-> "secret"]

\* DatabaseManager.__init__: the gateway object, {} where it raises ValueError
DatabaseManager(environ) ==
    IF environ.SUPABASE_URL = None \/ environ.SUPABASE_KEY = None
    THEN {}
    ELSE { [supabase |-> <<environ.SUPABASE_URL, environ.SUPABASE_KEY>>] }

\* AIService.__init__: without the key it reports the error and returns, and
\* the object is constructed with no client configured and no defaults set
AIService(environ) ==
    IF environ.GEMINI_API_KEY = None
    THEN { [configured |-> FALSE] }
    ELSE { [configured |-> TRUE] }

\* init_services under st.cache_resource: the cached pair if there is one,
\* else both constructors; {} where an exception is raised (nothing is cached)
init_services(environ, cached) ==
    IF cached # {} THEN cached
    ELSE { [db |-> db, ai |-> ai] : db \in DatabaseManager(environ), ai \in AIService(environ) }

\* the pages of the sidebar
Pages == { "Manage Prompts", "Manage Questions", "Manage Users", "Manage Cases",
           "Experiments", "Results" }

\* a dict with key set to value
Put(dict, key, value) == { kv \in dict : kv[1] # key } \cup { <<key, value>> }

\* is_authenticated: st.session_state.get("authenticated", False)
is_authenticated(state) == HasKey(state, "authenticated") /\ Get(state, "authenticated")

\* get_current_user: st.session_state.get("username", "")
get_current_user(state) == IF HasKey(state, "username") THEN Get(state, "username") ELSE ""

\* one script run of main up to the call of the page function: clicked is the
\* sidebar button pressed ({} for none); last.page is the page function
\* called ({} where main returned before routing)
main(clicked) ==
    /\ pc = "idle"
    /\ clicked \subseteq Pages
    /\ Cardinality(clicked) <= 1
    /\ \E built \in { init_services(env, services) } :
          /\ services' = built
          /\ IF built = {}
             THEN /\ session_state' = session_state
                  /\ last' = [op |-> "main", page |-> {}, authenticated |-> FALSE]
             ELSE \E page \in (IF clicked # {} THEN clicked
                               ELSE IF HasKey(session_state, "current_page")
                               THEN { Get(session_state, "current_page") }
                               ELSE { "Manage Prompts" }) :
                     /\ session_state' = Put(session_state, "current_page", page)
                     /\ last' = [op |-> "main", page |-> {page},
                                 authenticated |-> is_authenticated(session_state)]
    /\ calls' = <<>>
    /\ UNCHANGED <<store, pc, run, env, upserting>>

\* the pages are called by main, which returns before them when the services
\* could not be initialised
Serving == services # {}

\* AuthManager.__init__: the manager, {} where it reports the missing
\* credentials and stops the script
AuthManager(environ) ==
    IF environ.AUTH_USERNAME = None \/ environ.AUTH_PASSWORD = None
    THEN {}
    ELSE { [username |-> environ.AUTH_USERNAME, password |-> environ.AUTH_PASSWORD] }

\* mutant: only the username is compared
check_credentials_username_only(self, username, password) ==
    username = self.username

check_credentials(self, username, password) ==
    username = self.username /\ password = self.password

\* AuthManager().login(username, password)
login(username, password) ==
    /\ pc = "idle"
    /\ \E self \in AuthManager(env) :
          /\ session_state' =
                 IF check_credentials(self, username, password)
                 THEN Put(Put(session_state, "authenticated", TRUE), "username", username)
                 ELSE session_state
          /\ last' = [op |-> "login", username |-> username, password |-> password,
                      returned |-> check_credentials(self, username, password)]
    /\ calls' = <<>>
    /\ UNCHANGED <<store, pc, run, env, services, upserting>>

\* AuthManager().logout()
logout ==
    /\ pc = "idle"
    /\ AuthManager(env) # {}
    /\ session_state' = Put({ kv \in session_state : kv[1] # "username" },
                            "authenticated", FALSE)
    /\ last' = [op |-> "logout"]
    /\ calls' = <<>>
    /\ UNCHANGED <<store, pc, run, env, services, upserting>>

----------------------------------------------------------------------------
(* Persistence gateway (database.py).  A read that fails inside the gateway *)
(* is reported as the method's sentinel ([] or None); ok = FALSE is that    *)
(* outcome.                                                                 *)

AnswerRows(rows, question_id, user_id) ==
    { a \in rows : a.question_id = question_id /\ a.user_id = user_id }

\* result.data[0]: the first row the store returns.  An Optional[...] result
\* is kept as a set: {} for None, {row} for a record.
FirstRow(rows) == CHOOSE r \in rows : \A o \in rows : r.id <= o.id

get_answer_by_question_and_user(rows, question_id, user_id, ok) ==
    LET data == AnswerRows(rows, question_id, user_id)
    IN IF ok /\ data # {} THEN {FirstRow(data)} ELSE {}

get_followups_by_answer(rows, answer_id) ==
    { f \in rows : f.answer_id = answer_id }

\* mutant: the delete is not executed
clear_followups_by_answer_no_delete(rows, answer_id, ok) == rows

\* DELETE FROM followup_questions WHERE answer_id = ...; the rows left
clear_followups_by_answer(rows, answer_id, ok) ==
    IF ok THEN { f \in rows : f.answer_id # answer_id } ELSE rows

\* INSERT INTO followup_questions; the rows afterwards
create_followup_question(rows, id, answer_id, followup_text, reason, ok) ==
    IF ok
    THEN rows \cup { [id |-> id, answer_id |-> answer_id,
                      followup_text |-> followup_text, reason |-> reason] }
    ELSE rows

get_experiment_cases(rows, experiment_id, ok) ==
    IF ok THEN { c \in rows : c.experiment_id = experiment_id } ELSE {}

\* INSERT INTO experiment_cases; the rows afterwards
create_experiment_case(rows, id, experiment_id, question_id, user_id, is_selected, ok) ==
    IF ok
    THEN rows \cup { [id |-> id, experiment_id |-> experiment_id,
                      question_id |-> question_id, user_id |-> user_id,
                      is_selected |-> is_selected] }
    ELSE rows

\* UPDATE experiment_cases SET is_selected = ... WHERE id = case_id
update_experiment_case_selection(rows, case_id, is_selected, ok) ==
    IF ok
    THEN { IF c.id = case_id THEN [c EXCEPT !.is_selected = is_selected] ELSE c : c \in rows }
    ELSE rows

\* mutant: the existence check is dropped, every submission inserts
UpsertRows_always_insert(rows, id, question_id, user_id, answer_text, ok) ==
    IF ~ok THEN rows
    ELSE rows \cup { [id |-> IF rows = {} THEN id
                              ELSE 1 + (CHOOSE m \in {r.id : r \in rows} :
                                           \A r \in rows : r.id <= m),
                       question_id |-> question_id, user_id |-> user_id,
                       answer_text |-> answer_text] }

\* the rows of table answers after create_or_update_answer
UpsertRows(rows, id, question_id, user_id, answer_text, ok) ==
    LET existing == AnswerRows(rows, question_id, user_id)
    IN IF ~ok THEN rows
       ELSE IF existing # {}
       THEN { IF a \in existing THEN [a EXCEPT !.answer_text = answer_text] ELSE a : a \in rows }
       ELSE rows \cup { [id |-> id, question_id |-> question_id, user_id |-> user_id,
                         answer_text |-> answer_text] }

create_or_update_answer(question_id, user_id, answer_text, ok) ==
    LET existing == AnswerRows(answers, question_id, user_id)
        inserts  == ok /\ existing = {}
        after    == UpsertRows(answers, next_id.answers, question_id, user_id, answer_text, ok)
    IN /\ pc = "idle"
       /\ Serving
       /\ question_id \in questions
       /\ user_id \in users
       /\ inserts => next_id.answers <= MaxAnswerId
       /\ answers' = after
       /\ next_id' = IF inserts THEN [next_id EXCEPT !.answers = @ + 1] ELSE next_id
       /\ last' = [op |-> "create_or_update_answer",
                   question_id |-> question_id, user_id |-> user_id,
                   existed |-> existing # {},
                   returned |-> IF ok
                                THEN {FirstRow(AnswerRows(after, question_id, user_id)).id}
                                ELSE {}]
       /\ calls' = <<>>
       /\ UNCHANGED <<host, prompts, questions, users, experiments, followup_questions,
                      experiment_cases, pc, run>>

\* create_or_update_answer called by one of several sessions, first half:
\* the SELECT of the pair's rows ("Check if answer already exists")
select_answer(session, question_id, user_id, answer_text) ==
    /\ pc = "idle"
    /\ Serving
    /\ upserting[session] = {}
    /\ question_id \in questions
    /\ user_id \in users
    /\ upserting' = [upserting EXCEPT ![session] =
                        { [question_id |-> question_id, user_id |-> user_id,
                           answer_text |-> answer_text,
                           existing |-> AnswerRows(answers, question_id, user_id)] }]
    /\ UNCHANGED <<store, pc, run, last, calls, env, services, session_state>>

\* second half: the UPDATE of the pair's rows if the SELECT found any, else
\* the INSERT of a new row
write_answer(session) ==
    /\ \E call \in upserting[session] :
          /\ call.existing = {} => next_id.answers <= MaxAnswerId
          /\ answers' =
                 IF call.existing # {}
                 THEN { IF a.question_id = call.question_id /\ a.user_id = call.user_id
                        THEN [a EXCEPT !.answer_text = call.answer_text] ELSE a : a \in answers }
                 ELSE answers \cup { [id |-> next_id.answers,
                                      question_id |-> call.question_id,
                                      user_id |-> call.user_id,
                                      answer_text |-> call.answer_text] }
          /\ next_id' = IF call.existing = {} THEN [next_id EXCEPT !.answers = @ + 1]
                        ELSE next_id
          /\ last' = [op |-> "write_answer", session |-> session,
                      question_id |-> call.question_id, user_id |-> call.user_id,
                      existed |-> call.existing # {}]
    /\ upserting' = [upserting EXCEPT ![session] = {}]
    /\ calls' = <<>>
    /\ UNCHANGED <<prompts, questions, users, experiments, followup_questions,
                   experiment_cases, pc, run, env, services, session_state>>

\* get_questions_by_prompt: the prompt's questions in created_at order, []
\* where the read raises (every question belongs to the one prompt)
get_questions_by_prompt(rows, prompt_id, ok) == IF ok THEN Ascending(rows) ELSE <<>>

\* mutant: the read returns no row
get_answers_by_question_nothing(rows, question_id, ok) == {}

\* get_answers_by_question: the question's answers, [] where the read raises
get_answers_by_question(rows, question_id, ok) ==
    IF ok THEN { a \in rows : a.question_id = question_id } ELSE {}

\* the failures of one delete_prompt / delete_question call: the reads that
\* raise inside the getters (which return []), and the table whose DELETE
\* raises inside the call (0: none, 1: followup_questions, 2: answers,
\* 3: questions, 4: prompts; the first DELETE on that table raises)
NoDeleteFaults == [question_reads |-> FALSE, answer_reads |-> {}, raises |-> 0]

\* for each question: read its answers, delete the follow-ups of each answer
\* read, delete the question's answers; tables.raised where a DELETE raised
RECURSIVE DeleteLoop(_, _, _)
DeleteLoop(question_ids, tables, faults) ==
    IF question_ids = <<>> \/ tables.raised THEN tables
    ELSE LET question_id == Head(question_ids)
             read == get_answers_by_question(tables.answers, question_id,
                                             question_id \notin faults.answer_reads)
             cleared == { f \in tables.followup_questions :
                            f.answer_id \notin { a.id : a \in read } }
         IN IF read # {} /\ faults.raises = 1
            THEN [tables EXCEPT !.raised = TRUE]
            ELSE IF faults.raises = 2
            THEN [tables EXCEPT !.followup_questions = cleared, !.raised = TRUE]
            ELSE DeleteLoop(Tail(question_ids),
                            [followup_questions |-> cleared,
                             answers |-> { a \in tables.answers : a.question_id # question_id },
                             raised |-> FALSE],
                            faults)

\* delete_question: follow-ups, answers, then the question; True if the
\* question row was deleted, False after an exception
delete_question(question_id, faults) ==
    /\ pc = "idle"
    /\ Serving
    /\ question_id \in questions
    /\ \E tables \in { DeleteLoop(<< question_id >>,
                                  [followup_questions |-> followup_questions,
                                   answers |-> answers, raised |-> FALSE], faults) } :
          LET done == ~tables.raised /\ faults.raises # 3
          IN /\ followup_questions' = tables.followup_questions
             /\ answers' = tables.answers
             /\ questions' = IF done THEN questions \ {question_id} ELSE questions
             /\ last' = [op |-> "delete_question", id |-> question_id, returned |-> done]
    /\ calls' = <<>>
    /\ UNCHANGED <<host, prompts, users, experiments, experiment_cases, next_id, pc, run>>

\* delete_prompt: for each question read, follow-ups and answers; then the
\* prompt's questions, then the prompt; True if the prompt row was deleted
delete_prompt(prompt_id, faults) ==
    /\ pc = "idle"
    /\ Serving
    /\ prompt_id \in prompts
    /\ \E tables \in { DeleteLoop(get_questions_by_prompt(questions, prompt_id,
                                                          ~faults.question_reads),
                                  [followup_questions |-> followup_questions,
                                   answers |-> answers, raised |-> FALSE], faults) } :
          LET deleted == ~tables.raised /\ faults.raises # 3
              done == deleted /\ faults.raises # 4
          IN /\ followup_questions' = tables.followup_questions
             /\ answers' = tables.answers
             /\ questions' = IF deleted THEN {} ELSE questions
             /\ prompts' = IF done THEN prompts \ {prompt_id} ELSE prompts
             /\ last' = [op |-> "delete_prompt", id |-> prompt_id, returned |-> done]
    /\ calls' = <<>>
    /\ UNCHANGED <<host, users, experiments, experiment_cases, next_id, pc, run>>

\* delete_user: the users row only
delete_user(user_id, ok) ==
    /\ pc = "idle"
    /\ Serving
    /\ user_id \in users
    /\ users' = IF ok THEN users \ {user_id} ELSE users
    /\ last' = [op |-> "delete_user", id |-> user_id, returned |-> ok]
    /\ calls' = <<>>
    /\ UNCHANGED <<host, prompts, questions, experiments, answers, followup_questions,
                   experiment_cases, next_id, pc, run>>

----------------------------------------------------------------------------
(* Case selection grid of experiments_page (app.py).                        *)

\* existing_case_keys: one case row per (question_id, user_id) among rows
CaseKey(c) == <<c.question_id, c.user_id>>

\* the dict comprehension keeps, per key, the row the store returned last;
\* the store orders the rows by id, ascending or (latest = FALSE) not
ExistingCaseKeys(rows, latest) ==
    [ k \in {CaseKey(c) : c \in rows} |->
        CHOOSE c \in rows :
            /\ CaseKey(c) = k
            /\ \A o \in rows : CaseKey(o) = k =>
                   IF latest THEN o.id <= c.id ELSE c.id <= o.id ]

\* the (question, user) cells in the order the grid visits them
RECURSIVE Cells(_, _)
Cells(qs, us) ==
    IF qs = <<>> THEN <<>>
    ELSE [j \in 1..Len(us) |-> <<Head(qs), us[j]>>] \o Cells(Tail(qs), us)

\* mutant: the answer text is tested without strip()
has_answer_unstripped(rows, question_id, user_id, ok) ==
    LET answer == get_answer_by_question_and_user(rows, question_id, user_id, ok)
    IN answer # {} /\ \A a \in answer : a.answer_text # <<>>

\* has_answer of one cell
has_answer(rows, question_id, user_id, ok) ==
    LET answer == get_answer_by_question_and_user(rows, question_id, user_id, ok)
    IN answer # {} /\ \A a \in answer : strip(a.answer_text) # <<>>

\* the value the checkbox of a cell returns: its default is_selected, unless
\* the user has just toggled that checkbox
Checkbox(toggled, experiment_id, key, is_selected) ==
    IF toggled = {<<experiment_id, key[1], key[2]>>} THEN ~is_selected ELSE is_selected

\* mutant: a pair without a case row is never given one
CellWrite_update_only(g, experiment_id, key, existing_case, selected, ok) ==
    IF existing_case # {}
    THEN LET c == CHOOSE c \in existing_case : TRUE
         IN IF selected # c.is_selected
            THEN [g EXCEPT
                    !.rows = update_experiment_case_selection(@, c.id, selected, ok),
                    !.calls = Append(@, [fn |-> "update_experiment_case_selection",
                                         experiment_id |-> experiment_id,
                                         case_id |-> c.id, key |-> key,
                                         is_selected |-> selected])]
            ELSE g
    ELSE g

\* mutant: an existing case is written on every render, changed or not
CellWrite_always_update(g, experiment_id, key, existing_case, selected, ok) ==
    IF existing_case # {}
    THEN LET c == CHOOSE c \in existing_case : TRUE
         IN [g EXCEPT
               !.rows = update_experiment_case_selection(@, c.id, selected, ok),
               !.calls = Append(@, [fn |-> "update_experiment_case_selection",
                                    experiment_id |-> experiment_id,
                                    case_id |-> c.id, key |-> key,
                                    is_selected |-> selected])]
    ELSE IF selected
         THEN [g EXCEPT
                 !.rows = create_experiment_case(@, g.id, experiment_id, key[1], key[2],
                                                 selected, ok),
                 !.id = IF ok THEN @ + 1 ELSE @,
                 !.calls = Append(@, [fn |-> "create_experiment_case",
                                      experiment_id |-> experiment_id,
                                      case_id |-> g.id, key |-> key,
                                      is_selected |-> selected])]
         ELSE g

\* "Create or update case if selection changed" for one offered cell; g holds
\* the rows, the id sequence and the gateway calls so far
CellWrite(g, experiment_id, key, existing_case, selected, ok) ==
    IF existing_case # {}
    THEN LET c == CHOOSE c \in existing_case : TRUE
         IN IF selected # c.is_selected
            THEN [g EXCEPT
                    !.rows = update_experiment_case_selection(@, c.id, selected, ok),
                    !.calls = Append(@, [fn |-> "update_experiment_case_selection",
                                         experiment_id |-> experiment_id,
                                         case_id |-> c.id, key |-> key,
                                         is_selected |-> selected])]
            ELSE g
    ELSE IF selected
         THEN [g EXCEPT
                 !.rows = create_experiment_case(@, g.id, experiment_id, key[1], key[2],
                                                 selected, ok),
                 !.id = IF ok THEN @ + 1 ELSE @,
                 !.calls = Append(@, [fn |-> "create_experiment_case",
                                      experiment_id |-> experiment_id,
                                      case_id |-> g.id, key |-> key,
                                      is_selected |-> selected])]
         ELSE g

\* the loop over the cells of one experiment's grid
RECURSIVE Grid(_, _, _, _, _, _)
Grid(g, cells, experiment_id, keys, toggled, faults) ==
    IF cells = <<>> THEN g
    ELSE LET key == Head(cells)
             existing_case == IF key \in DOMAIN keys THEN {keys[key]} ELSE {}
             offered == has_answer(answers, key[1], key[2], key \notin faults.answer_reads)
             is_selected == IF existing_case # {}
                            THEN (CHOOSE c \in existing_case : TRUE).is_selected
                            ELSE TRUE
             selected == Checkbox(toggled, experiment_id, key, is_selected)
             shown == [g EXCEPT !.boxes = @ \cup { [experiment_id |-> experiment_id,
                                                     key |-> key,
                                                     existing_case |-> existing_case,
                                                     value |-> selected] }]
         IN Grid(IF offered
                 THEN CellWrite(shown, experiment_id, key, existing_case, selected,
                                key \notin faults.writes)
                 ELSE g,
                 Tail(cells), experiment_id, keys, toggled, faults)

\* the expanders of the page, one per experiment (ORDER BY created_at DESC),
\* each with its grid; faults names the gateway calls that fail in this script run
RECURSIVE Page(_, _, _, _)
Page(g, exps, toggled, faults) ==
    IF exps = <<>> THEN g
    ELSE LET experiment_id == Head(exps)
             existing_cases == get_experiment_cases(g.rows, experiment_id,
                                                    experiment_id \notin faults.case_reads)
             keys == ExistingCaseKeys(existing_cases, faults.latest)
             cells == Cells(Ascending(questions), Ascending(users))
         IN Page(Grid(g, cells, experiment_id, keys, toggled, faults),
                 Tail(exps), toggled, faults)

Descending(S) == [i \in 1..Cardinality(S) |-> Ascending(S)[Cardinality(S) + 1 - i]]

\* the experiments rendered up to and including the one whose button was clicked
UpTo(exps, button) ==
    IF button = {} THEN exps
    ELSE LET n == CHOOSE i \in 1..Len(exps) : exps[i] \in button
         IN SubSeq(exps, 1, n)

After(exps, button) ==
    IF button = {} THEN <<>>
    ELSE SubSeq(exps, Len(UpTo(exps, button)) + 1, Len(exps))

NoFaults == [case_reads |-> {}, answer_reads |-> {}, writes |-> {}, latest |-> TRUE]

IdleRun == [experiment_id |-> 0, case_results |-> <<>>, total_cases |-> 0, i |-> 0,
            followup_data |-> EmptyResult, outcomes |-> <<>>, progress |-> 0,
            first_new_id |-> 0, status |-> "none", report |-> 0]

\* the bound on the case rows of each experiment
WithinCases(rows) ==
    \A e \in experiments : Cardinality({ c \in rows : c.experiment_id = e }) <= MaxCases

\* a checkbox the user can toggle: one the previous script run displayed
Displayed(toggled) ==
    /\ last.op = "experiments_page"
    /\ \A t \in toggled : \E b \in last.boxes :
           b.experiment_id = t[1] /\ b.key = <<t[2], t[3]>>

\* one script run of experiments_page: the grids, then the clicked
\* "Run Experiment" button, if any.  A script run is caused by one widget (a
\* toggled checkbox, a clicked button), by navigation or by st.rerun().
experiments_page(toggled, button, faults) ==
    /\ pc \in {"idle", "rerun"}
    /\ Serving
    /\ prompts # {}
    /\ toggled = {} \/ button = {}
    /\ pc = "rerun" => toggled = {} /\ button = {}
    /\ toggled # {} => Displayed(toggled)
    /\ button \subseteq experiments
    /\ button # {} => questions # {} /\ users # {}
    /\ \E g \in { Page([rows |-> experiment_cases, id |-> next_id.experiment_cases,
                         calls |-> <<>>, boxes |-> {}],
                        UpTo(Descending(experiments), button), toggled, faults) } :
          /\ WithinCases(g.rows)
          /\ \A e \in button :
                next_id.followup_questions
                  + Cardinality({c \in g.rows : c.experiment_id = e /\ c.is_selected})
                  <= MaxFollowupId + 1
          /\ experiment_cases' = g.rows
          /\ next_id' = [next_id EXCEPT !.experiment_cases = g.id]
          /\ calls' = g.calls
          /\ last' = [op |-> "experiments_page", toggled |-> toggled, button |-> button,
                      boxes |-> g.boxes,
                      failed |-> faults.case_reads # {} \/ faults.answer_reads # {}
                                     \/ faults.writes # {},
                      first_id |-> next_id.experiment_cases]
    /\ IF button = {}
       THEN pc' = "idle" /\ run' = IdleRun
       ELSE /\ pc' = "run_experiment"
            /\ run' = [IdleRun EXCEPT !.experiment_id = CHOOSE e \in button : TRUE]
    /\ UNCHANGED <<host, prompts, questions, users, experiments, answers, followup_questions>>

----------------------------------------------------------------------------
(* The joined selected case set and the runner run_experiment (app.py).     *)

\* mutant: the user of the case is not looked up
CaseResultOf_without_user(case, skipped) ==
    LET question == { q \in questions : q = case.question_id }
        answer   == get_answer_by_question_and_user(answers, case.question_id, case.user_id,
                                                    case.id \notin skipped)
    IN IF question = {} \/ answer = {} THEN {}
       ELSE { [case |-> case,
               question_id |-> case.question_id,
               user_id |-> case.user_id,
               answer |-> CHOOSE a \in answer : TRUE,
               followup_questions |->
                   get_followups_by_answer(followup_questions,
                                           (CHOOSE a \in answer : TRUE).id)] }

\* one CaseResult of the join, as a set: {} where the loop hits a `continue`
CaseResultOf(case, skipped) ==
    LET question == { q \in questions : q = case.question_id }
        user     == { u \in users : u = case.user_id /\ case.id \notin skipped }
        answer   == get_answer_by_question_and_user(answers, case.question_id, case.user_id,
                                                    case.id \notin skipped)
    IN IF question = {} \/ user = {} \/ answer = {} THEN {}
       ELSE { [case |-> case,
               question_id |-> case.question_id,
               user_id |-> case.user_id,
               answer |-> CHOOSE a \in answer : TRUE,
               followup_questions |->
                   get_followups_by_answer(followup_questions,
                                           (CHOOSE a \in answer : TRUE).id)] }

\* the loop of the join over the selected rows, in the order the store returned them
RECURSIVE JoinLoop(_, _)
JoinLoop(rows, skipped) ==
    IF rows = <<>> THEN <<>>
    ELSE LET r == CaseResultOf(Head(rows), skipped)
         IN (IF r = {} THEN <<>> ELSE <<CHOOSE x \in r : TRUE>>) \o JoinLoop(Tail(rows), skipped)

\* mutant: the filter is_selected = True is missing from the query
SelectedRows_all(experiment_id) ==
    { c \in experiment_cases : c.experiment_id = experiment_id }

SelectedRows(experiment_id) ==
    { c \in experiment_cases : c.experiment_id = experiment_id /\ c.is_selected = TRUE }

\* every list get_selected_experiment_cases_with_data may return: aborted is the
\* exception caught at the end (-> []), skipped the cases whose user or answer
\* read returned None
get_selected_experiment_cases_with_data(experiment_id, aborted, skipped) ==
    IF aborted THEN { <<>> }
    ELSE { JoinLoop(order, skipped) : order \in Orders(SelectedRows(experiment_id)) }

\* mutant: the result of the generation is saved unchecked
Saves_unchecked(followup_data) == TRUE

\* mutant: a result whose question is the empty string is not saved
Saves_with_text(followup_data) ==
    followup_data # {} /\ HasKey(followup_data, "question")
        /\ Get(followup_data, "question") # ""

\* "Save follow-up to database if generation was successful"
Saves(followup_data) == followup_data # {} /\ HasKey(followup_data, "question")

\* run_experiment up to the loop: fetch the joined set; with none, warn and
\* return, and the page goes on to the expanders below
RunStart(aborted, skipped, faults) ==
    /\ pc = "run_experiment"
    /\ \E case_results \in
           get_selected_experiment_cases_with_data(run.experiment_id, aborted, skipped) :
         IF case_results = <<>>
         THEN \E g \in { Page([rows |-> experiment_cases, id |-> next_id.experiment_cases,
                                calls |-> calls, boxes |-> {}],
                               After(Descending(experiments), {run.experiment_id}),
                               {}, faults) } :
                 /\ WithinCases(g.rows)
                 /\ experiment_cases' = g.rows
                 /\ next_id' = [next_id EXCEPT !.experiment_cases = g.id]
                 /\ calls' = g.calls
                 /\ run' = [run EXCEPT !.status = "no_selected_cases"]
                 /\ pc' = "done"
         ELSE /\ run' = [run EXCEPT !.case_results = case_results,
                                    !.total_cases = Len(case_results),
                                    !.i = 1,
                                    !.first_new_id = next_id.followup_questions,
                                    !.status = "running"]
              /\ pc' = "clear"
              /\ UNCHANGED <<experiment_cases, next_id, calls>>
    /\ UNCHANGED <<host, prompts, questions, users, experiments, answers, followup_questions, last>>

\* mutant: the follow-ups are cleared by the case's id, not the answer's
RunClear_by_case_id(ok) ==
    LET answer_id == run.case_results[run.i].case.id
    IN /\ pc = "clear"
       /\ followup_questions' = clear_followups_by_answer(followup_questions, answer_id, ok)
       /\ calls' = Append(calls, [fn |-> "clear_followups_by_answer", i |-> run.i,
                                  answer_id |-> answer_id])
       /\ pc' = "generate"
       /\ UNCHANGED <<host, prompts, questions, users, experiments, answers, experiment_cases,
                      next_id, run, last>>

\* db.clear_followups_by_answer(case_result.answer.id)
RunClear(ok) ==
    LET answer_id == run.case_results[run.i].answer.id
    IN /\ pc = "clear"
       /\ followup_questions' = clear_followups_by_answer(followup_questions, answer_id, ok)
       /\ calls' = Append(calls, [fn |-> "clear_followups_by_answer", i |-> run.i,
                                  answer_id |-> answer_id])
       /\ pc' = "generate"
       /\ UNCHANGED <<host, prompts, questions, users, experiments, answers, experiment_cases,
                      next_id, run, last>>

\* followup_data = ai.generate_followup_questions(...)
RunGenerate(followup_data) ==
    /\ pc = "generate"
    /\ run' = [run EXCEPT !.followup_data = followup_data,
                          !.outcomes = Append(@, followup_data)]
    /\ calls' = Append(calls, [fn |-> "generate_followup_questions", i |-> run.i,
                               answer_id |-> run.case_results[run.i].answer.id])
    /\ pc' = "save"
    /\ UNCHANGED <<host, store>>
    /\ UNCHANGED last

\* mutant: a failed insert sends the loop back to the same case
RunSave_retries(ok) ==
    LET answer_id == run.case_results[run.i].answer.id
        saves == Saves(run.followup_data)
        again == saves /\ ~ok
    IN /\ pc = "save"
       /\ followup_questions' =
              IF saves
              THEN create_followup_question(followup_questions,
                                            next_id.followup_questions, answer_id,
                                            Get(run.followup_data, "question"),
                                            Get(run.followup_data, "reason"), ok)
              ELSE followup_questions
       /\ next_id' = IF saves /\ ok THEN [next_id EXCEPT !.followup_questions = @ + 1]
                     ELSE next_id
       /\ calls' = IF saves
                   THEN Append(calls, [fn |-> "create_followup_question", i |-> run.i,
                                       answer_id |-> answer_id])
                   ELSE calls
       /\ run' = [run EXCEPT !.progress = IF again THEN @ ELSE run.i,
                             !.i = IF ~again /\ run.i < run.total_cases THEN @ + 1 ELSE @]
       /\ pc' = IF again \/ run.i < run.total_cases THEN "clear" ELSE "finish"
       /\ UNCHANGED <<host, prompts, questions, users, experiments, answers, experiment_cases, last>>

\* the conditional create_followup_question and progress_bar.progress
RunSave(ok) ==
    LET answer_id == run.case_results[run.i].answer.id
        saves == Saves(run.followup_data)
    IN /\ pc = "save"
       /\ followup_questions' =
              IF saves
              THEN create_followup_question(followup_questions,
                                            next_id.followup_questions, answer_id,
                                            Get(run.followup_data, "question"),
                                            Get(run.followup_data, "reason"), ok)
              ELSE followup_questions
       /\ next_id' = IF saves /\ ok THEN [next_id EXCEPT !.followup_questions = @ + 1]
                     ELSE next_id
       /\ calls' = IF saves
                   THEN Append(calls, [fn |-> "create_followup_question", i |-> run.i,
                                       answer_id |-> answer_id])
                   ELSE calls
       /\ run' = [run EXCEPT !.progress = run.i,
                             !.i = IF run.i < run.total_cases THEN @ + 1 ELSE @]
       /\ pc' = IF run.i < run.total_cases THEN "clear" ELSE "finish"
       /\ UNCHANGED <<host, prompts, questions, users, experiments, answers, experiment_cases, last>>

\* mutant: the report counts the follow-ups the run inserted
RunFinish_reports_inserts ==
    /\ pc = "finish"
    /\ run' = [run EXCEPT !.status = "completed",
                          !.report = next_id.followup_questions - run.first_new_id]
    /\ pc' = "done"
    /\ UNCHANGED <<host, store>>
    /\ UNCHANGED <<last, calls>>

\* "Experiment completed!" and the success report: "Generated follow-up
\* questions for {total_cases} selected cases!"
RunFinish ==
    /\ pc = "finish"
    /\ run' = [run EXCEPT !.status = "completed", !.report = run.total_cases]
    /\ pc' = "done"
    /\ UNCHANGED <<host, store>>
    /\ UNCHANGED <<last, calls>>

\* st.rerun() (the page is run again at once), or the end of the script
\* after the early return
RunReturn ==
    /\ pc = "done"
    /\ pc' = IF run.status = "completed" THEN "rerun" ELSE "idle"
    /\ run' = IdleRun
    /\ calls' = <<>>
    /\ UNCHANGED <<host, store>>
    /\ UNCHANGED last

----------------------------------------------------------------------------
(* The result view results_page (app.py).                                   *)

\* position of user_id among the keys of results_by_user, 0 if it is not a key
GroupIndex(groups, user_id) ==
    IF \E i \in 1..Len(groups) : groups[i].user_id = user_id
    THEN CHOOSE i \in 1..Len(groups) : groups[i].user_id = user_id
    ELSE 0

\* "Group results by user": the dict results_by_user, in insertion order
RECURSIVE GroupLoop(_, _)
GroupLoop(groups, case_results) ==
    IF case_results = <<>> THEN groups
    ELSE LET case_result == Head(case_results)
             user_id == case_result.user_id
             at == GroupIndex(groups, user_id)
             opened == IF at = 0
                       THEN Append(groups, [user_id |-> user_id, cases |-> <<>>])
                       ELSE groups
             i == IF at = 0 THEN Len(opened) ELSE at
         IN GroupLoop([opened EXCEPT ![i].cases = Append(@, case_result)],
                      Tail(case_results))

\* mutant: the groups are built from the input read backwards
results_by_user_backwards(case_results) ==
    GroupLoop(<<>>, [k \in 1..Len(case_results) |->
                        case_results[Len(case_results) + 1 - k]])

results_by_user(case_results) == GroupLoop(<<>>, case_results)

\* sum(len(case.followup_questions) for case in case_results)
RECURSIVE TotalFollowups(_)
TotalFollowups(case_results) ==
    IF case_results = <<>> THEN 0
    ELSE Cardinality(Head(case_results).followup_questions)
           + TotalFollowups(Tail(case_results))

\* question_text of a question row; the store does not keep texts apart, and
\* here every question of the prompt carries the same text
QuestionText(question_id) == "Why?"

\* mutant: the questions are counted by their text
Summary_by_text(case_results) ==
    [ total_users     |-> Len(results_by_user(case_results)),
      total_questions |-> Cardinality({ QuestionText(case_results[k].question_id) :
                                          k \in 1..Len(case_results) }),
      total_cases     |-> Len(case_results),
      total_followups |-> TotalFollowups(case_results) ]

\* "Summary statistics": the four metrics
Summary(case_results) ==
    [ total_users     |-> Len(results_by_user(case_results)),
      total_questions |-> Cardinality({ case_results[k].question_id :
                                          k \in 1..Len(case_results) }),
      total_cases     |-> Len(case_results),
      total_followups |-> TotalFollowups(case_results) ]

\* mutant: no early return, the groups and the summary are always displayed
results_page_always_aggregates(experiment_id, aborted, skipped) ==
    /\ pc = "idle"
    /\ Serving
    /\ prompts # {}
    /\ experiment_id \in experiments
    /\ \E case_results \in
           get_selected_experiment_cases_with_data(experiment_id, aborted, skipped) :
         last' = [op |-> "results_page",
                  experiment_id |-> experiment_id,
                  case_results |-> case_results,
                  warning |-> FALSE,
                  view |-> { [results_by_user |-> results_by_user(case_results),
                              summary |-> Summary(case_results)] }]
    /\ calls' = <<>>
    /\ UNCHANGED <<host, store>>
    /\ UNCHANGED <<pc, run>>

\* one script run of results_page for the selected experiment: with no case
\* result the page warns and returns before the groups and the summary;
\* view holds what was displayed ({} for nothing)
results_page(experiment_id, aborted, skipped) ==
    /\ pc = "idle"
    /\ Serving
    /\ prompts # {}
    /\ experiment_id \in experiments
    /\ \E case_results \in
           get_selected_experiment_cases_with_data(experiment_id, aborted, skipped) :
         last' = [op |-> "results_page",
                  experiment_id |-> experiment_id,
                  case_results |-> case_results,
                  warning |-> case_results = <<>>,
                  view |-> IF case_results = <<>> THEN {}
                           ELSE { [results_by_user |-> results_by_user(case_results),
                                   summary |-> Summary(case_results)] }]
    /\ calls' = <<>>
    /\ UNCHANGED <<host, store>>
    /\ UNCHANGED <<pc, run>>

----------------------------------------------------------------------------
(* The generation service (ai_service.py).  A text is a sequence of tokens:  *)
(* a blank, a newline, a code fence, a word or phrase, a brace, or a JSON    *)
(* document written on one line.                                            *)

\* longest free-form response text, in tokens
MaxResponseLen == 3

default_model == "gemini-2.0-flash"
\* temperatures are in tenths (the slider's step): 7 is 0.7
default_temperature == 7

JsonScenario == "{\"question\": \"What next?\", \"reason\": \"clarify\"}"
JsonNoMark   == "{\"question\": \"What next\", \"reason\": \"clarify\"}"
JsonBlank    == "{\"question\": \" \", \"reason\": \"clarify\"}"
JsonNoReason == "{\"question\": \"What next?\"}"
JsonList     == "[\"What next?\"]"
JsonNumber   == "{\"question\": 1, \"reason\": null}"

JsonObjects == { JsonScenario, JsonNoMark, JsonBlank, JsonNoReason, JsonNumber }
JsonDocuments == JsonObjects \cup { JsonList }

\* the markdown code fence: three backticks, with and without the language tag
FenceJson == "<fence>json"
Fence == "<fence>"

Tokens == Whitespace \cup { FenceJson, Fence, "Sure!", "What next?", "clarify", "{", "}" }
              \cup JsonDocuments

\* the value json.loads gives for a document: its kind and, for an object, its
\* members as <<key, type, string value>>
JsonValue(document) ==
    CASE document = JsonScenario ->
            [kind |-> "dict", items |-> { <<"question", "str", <<"What next?">>>>,
                                          <<"reason", "str", <<"clarify">>>> }]
      [] document = JsonNoMark ->
            [kind |-> "dict", items |-> { <<"question", "str", <<"What next">>>>,
                                          <<"reason", "str", <<"clarify">>>> }]
      [] document = JsonBlank ->
            [kind |-> "dict", items |-> { <<"question", "str", <<" ">>>>,
                                          <<"reason", "str", <<"clarify">>>> }]
      [] document = JsonNoReason ->
            [kind |-> "dict", items |-> { <<"question", "str", <<"What next?">>>> }]
      [] document = JsonNumber ->
            [kind |-> "dict", items |-> { <<"question", "int", <<>>>>,
                                          <<"reason", "null", <<>>>> }]
      [] OTHER -> [kind |-> "list", items |-> {}]

\* json.loads(text): {} for a JSONDecodeError, else the value; a text is JSON
\* when it is one document, blanks and newlines around it allowed
json_loads(text) ==
    IF Len(strip(text)) = 1 /\ strip(text)[1] \in JsonDocuments
    THEN { JsonValue(strip(text)[1]) }
    ELSE {}

\* text.endswith('?') and text.startswith('{') / text.startswith('}')
EndsWithMark(text) == text # <<>> /\ text[Len(text)] \in { "What next?", "?" }
StartsWithBrace(text) == text # <<>> /\ Head(text) \in { "{", "}" } \cup JsonObjects

\* text.split('\n')
RECURSIVE Split(_)
Split(text) ==
    IF \A i \in 1..Len(text) : text[i] # "\n" THEN << text >>
    ELSE LET i == CHOOSE i \in 1..Len(text) :
                      text[i] = "\n" /\ \A h \in 1..(i - 1) : text[h] # "\n"
         IN << SubSeq(text, 1, i - 1) >> \o Split(SubSeq(text, i + 1, Len(text)))

\* the line scan of _fallback_parse_response
RECURSIVE FallbackLoop(_, _, _)
FallbackLoop(lines, question, reason) ==
    IF lines = <<>> THEN [question |-> question, reason |-> reason]
    ELSE LET line == strip(Head(lines))
         IN IF EndsWithMark(line)
            THEN FallbackLoop(Tail(lines), line, reason)
            ELSE IF line # <<>> /\ ~StartsWithBrace(line) /\ reason = <<>>
            THEN FallbackLoop(Tail(lines), question, line)
            ELSE FallbackLoop(Tail(lines), question, reason)

_fallback_parse_response(response_text) ==
    LET found == FallbackLoop(Split(strip(response_text)), <<>>, <<>>)
    IN IF found.question # <<>> /\ found.reason # <<>>
       THEN { <<"question", found.question>>, <<"reason", found.reason>> }
       ELSE {}

\* cleaned_text: the fence is removed only where the text starts / ends with it
cleaned_text(response_text) ==
    LET stripped == strip(response_text)
        opened == IF stripped # <<>> /\ Head(stripped) = FenceJson
                  THEN Tail(stripped) ELSE stripped
        closed == IF opened # <<>> /\ opened[Len(opened)] = Fence
                  THEN SubSeq(opened, 1, Len(opened) - 1) ELSE opened
    IN strip(closed)

\* the member of a parsed object, as a set
Member(parsed, key) == { m \in parsed.items : m[1] = key }

\* mutant: the question is returned as parsed, no question mark is added
_parse_structured_response_as_parsed(response_text) ==
    LET loaded == json_loads(cleaned_text(response_text))
    IN IF loaded = {} THEN _fallback_parse_response(response_text)
       ELSE LET parsed == CHOOSE v \in loaded : TRUE
                q == Member(parsed, "question")
                r == Member(parsed, "reason")
            IN IF parsed.kind = "dict" /\ q # {} /\ r # {}
               THEN IF \E m \in q \cup r : m[2] # "str"
                    THEN {}
                    ELSE { <<"question", strip((CHOOSE m \in q : TRUE)[3])>>,
                           <<"reason", strip((CHOOSE m \in r : TRUE)[3])>> }
               ELSE {}

\* json.loads on the cleaned text; on a JSONDecodeError the line scan of the
\* raw text; any other exception (a member that is not a string) gives {}
_parse_structured_response(response_text) ==
    LET loaded == json_loads(cleaned_text(response_text))
    IN IF loaded = {} THEN _fallback_parse_response(response_text)
       ELSE LET parsed == CHOOSE v \in loaded : TRUE
                q == Member(parsed, "question")
                r == Member(parsed, "reason")
            IN IF parsed.kind = "dict" /\ q # {} /\ r # {}
               THEN IF \E m \in q \cup r : m[2] # "str"
                    THEN {}
                    ELSE LET question == strip((CHOOSE m \in q : TRUE)[3])
                             reason == strip((CHOOSE m \in r : TRUE)[3])
                         IN { <<"question",
                                IF question # <<>> /\ ~EndsWithMark(question)
                                THEN Append(question, "?") ELSE question>>,
                              <<"reason", reason>> }
               ELSE {}

\* the GenerativeModel the service builds: {} where an exception is raised
\* before it (the unconfigured service has no default attributes)
GenerativeModel(prompt_context, model, temperature, failure) ==
    IF failure = "no_api_key" /\ (model = "" \/ temperature = 0) THEN {}
    ELSE { [system_instruction |-> prompt_context,
            model_name |-> IF model # "" THEN model ELSE default_model,
            temperature |-> IF temperature # 0 THEN temperature
                            ELSE default_temperature] }

\* one call of generate_followup_questions, as the runner makes it for a case;
\* failure is the exception raised inside it ("none": the model answered
\* response_text)
generate_followup_questions(prompt_context, model, temperature, failure, response_text) ==
    /\ pc = "idle"
    /\ last' = [op |-> "generate_followup_questions",
                prompt_context |-> prompt_context,
                model |-> model,
                temperature |-> temperature,
                failure |-> failure,
                response_text |-> response_text,
                request |-> GenerativeModel(prompt_context, model, temperature, failure),
                returned |-> IF failure # "none" \/ response_text = <<>> THEN {}
                             ELSE _parse_structured_response(response_text)]
    /\ calls' = <<>>
    /\ UNCHANGED <<host, store>>
    /\ UNCHANGED <<pc, run>>

----------------------------------------------------------------------------
(* Specifications *)

\* the sessions that may call the gateway concurrently
Sessions == { 1, 2 }

\* every variable set, the services initialised, a fresh browser session, no
\* gateway call in flight
Configured ==
    /\ prompts = {1}
    /\ env = FullEnv
    /\ services = init_services(FullEnv, {})
    /\ session_state = {}
    /\ upserting = [s \in Sessions |-> {}]

Init ==
    /\ Configured
    /\ questions = {1}
    /\ users = {1, 2}
    /\ experiments = {1}
    /\ answers = {}
    /\ followup_questions = {}
    /\ experiment_cases = {}
    /\ next_id = [answers |-> 1, followup_questions |-> 1, experiment_cases |-> 1]
    /\ pc = "idle"
    /\ run = IdleRun
    /\ last = [op |-> "none"]
    /\ calls = <<>>

\* the widget a rerun may be caused by
Toggles == { {} } \cup { {<<e, q, u>>} : e \in experiments, q \in questions, u \in users }
Buttons == { {} } \cup { {e} : e \in experiments }

\* every gateway call succeeds; generation may return the empty result
Next ==
    \/ \E q \in questions, u \in users, t \in Texts : create_or_update_answer(q, u, t, TRUE)
    \/ \E toggled \in Toggles, button \in Buttons : experiments_page(toggled, button, NoFaults)
    \/ RunStart(FALSE, {}, NoFaults)
    \/ RunClear(TRUE)
    \/ \E followup_data \in GenResults : RunGenerate(followup_data)
    \/ RunSave(TRUE)
    \/ RunFinish
    \/ RunReturn
    \/ \E e \in experiments : results_page(e, FALSE, {})

Spec == Init /\ [][Next]_vars

\* The batch scenario: a prompt with two questions, two users, non-blank
\* answers only, the default selection, runs with failing generations.
InitBatch ==
    /\ Configured
    /\ questions = {1, 2}
    /\ users = {1, 2}
    /\ experiments = {1}
    /\ answers = {}
    /\ followup_questions = {}
    /\ experiment_cases = {}
    /\ next_id = [answers |-> 1, followup_questions |-> 1, experiment_cases |-> 1]
    /\ pc = "idle"
    /\ run = IdleRun
    /\ last = [op |-> "none"]
    /\ calls = <<>>

NextBatch ==
    \/ \E q \in questions, u \in users : create_or_update_answer(q, u, <<"a">>, TRUE)
    \/ \E button \in Buttons : experiments_page({}, button, NoFaults)
    \/ RunStart(FALSE, {}, NoFaults)
    \/ RunClear(TRUE)
    \/ \E followup_data \in GenResults : RunGenerate(followup_data)
    \/ RunSave(TRUE)
    \/ RunFinish
    \/ RunReturn
    \/ \E e \in experiments : results_page(e, FALSE, {})

SpecBatch == InitBatch /\ [][NextBatch]_vars

\* The selection grid with failing gateway calls: any read may return its
\* sentinel, any write may fail.
Faults ==
    { f \in [case_reads : SUBSET experiments,
             answer_reads : SUBSET (questions \X users),
             writes : SUBSET (questions \X users),
             latest : BOOLEAN] :
        Cardinality(f.case_reads) + Cardinality(f.answer_reads) + Cardinality(f.writes)
            <= MaxFaults }

NextFault ==
    \/ \E q \in questions, u \in users, t \in Texts, ok \in BOOLEAN :
          create_or_update_answer(q, u, t, ok)
    \/ \E toggled \in Toggles, faults \in Faults : experiments_page(toggled, {}, faults)
    \/ \E e \in experiments, aborted \in BOOLEAN,
          skipped \in { {} } \cup { {c.id} : c \in experiment_cases } :
          results_page(e, aborted, skipped)

SpecFault == Init /\ [][NextFault]_vars

\* The runner with failing gateway writes: the delete and the insert of a case
\* may each fail (the gateway catches the exception and returns its sentinel),
\* the generation may return the empty result.  run_experiment is sequential
\* and each of its calls returns, so a started run keeps taking steps.
RunStep ==
    \/ RunStart(FALSE, {}, NoFaults)
    \/ \E ok \in BOOLEAN : RunClear(ok)
    \/ \E followup_data \in GenResults : RunGenerate(followup_data)
    \/ \E ok \in BOOLEAN : RunSave(ok)
    \/ RunFinish
    \/ RunReturn

NextRun ==
    \/ \E q \in questions, u \in users : create_or_update_answer(q, u, <<"a">>, TRUE)
    \/ \E toggled \in Toggles, button \in Buttons : experiments_page(toggled, button, NoFaults)
    \/ RunStep

SpecRun == Init /\ [][NextRun]_vars /\ WF_vars(RunStep)

\* The generation service on its own: every prompt setting with a fixed
\* response, and every response with a fixed prompt.
Contents == { "Ask why.", "Be brief." }
Models == { "gemini-2.0-flash", "gemini-1.5-pro" }
Temperatures == { 0, 5, 7, 10 }
Failures == { "none", "network_error", "no_api_key" }

\* a fenced JSON document, with or without text before the fence
Wrapped ==
    { pre \o << FenceJson >> \o gap1 \o << document >> \o gap2 \o << Fence >> \o post :
        pre \in { <<>>, << "Sure!", " " >> },
        gap1 \in { <<>>, << " " >>, << "\n" >> },
        document \in JsonDocuments,
        gap2 \in { <<>>, << " " >>, << "\n" >> },
        post \in { <<>>, << "\n" >> } }

Responses == UNION { [1..n -> Tokens] : n \in 0..MaxResponseLen } \cup Wrapped

\* the calls made: every prompt setting and failure with the scenario's JSON
\* as response, and every response with one prompt
GenerateCalls ==
    { [op |-> "call", prompt_context |-> prompt_context, model |-> model,
       temperature |-> temperature, failure |-> failure,
       response_text |-> << JsonScenario >>] :
        prompt_context \in Contents, model \in Models, temperature \in Temperatures,
        failure \in Failures }
    \cup
    { [op |-> "call", prompt_context |-> "Ask why.", model |-> default_model,
       temperature |-> 5, failure |-> "none", response_text |-> response_text] :
        response_text \in Responses }

\* the session is about to make one of the calls
InitGen ==
    /\ Configured
    /\ questions = {1}
    /\ users = {1, 2}
    /\ experiments = {1}
    /\ answers = {}
    /\ followup_questions = {}
    /\ experiment_cases = {}
    /\ next_id = [answers |-> 1, followup_questions |-> 1, experiment_cases |-> 1]
    /\ pc = "idle"
    /\ run = IdleRun
    /\ last \in GenerateCalls
    /\ calls = <<>>

NextGen ==
    /\ last.op = "call"
    /\ generate_followup_questions(last.prompt_context, last.model, last.temperature,
                                   last.failure, last.response_text)

SpecGen == InitGen /\ [][NextGen]_vars

\* Start-up: the process is started with any of the credentials of the two
\* services missing; the pages are reached through main only.  A generation
\* client that was never configured fails every call.
Unset(names) == [n \in DOMAIN FullEnv |-> IF n \in names THEN None ELSE FullEnv[n]]

InitStartup ==
    /\ prompts = {1}
    /\ questions = {1}
    /\ users = {1, 2}
    /\ experiments = {1}
    /\ answers = {}
    /\ followup_questions = {}
    /\ experiment_cases = {}
    /\ next_id = [answers |-> 1, followup_questions |-> 1, experiment_cases |-> 1]
    /\ pc = "idle"
    /\ run = IdleRun
    /\ last = [op |-> "none"]
    /\ calls = <<>>
    /\ env \in { Unset(names) : names \in SUBSET {"SUPABASE_URL", "SUPABASE_KEY",
                                                   "GEMINI_API_KEY"} }
    /\ services = {}
    /\ session_state = {}
    /\ upserting = [s \in Sessions |-> {}]

NextStartup ==
    \/ \E clicked \in { {}, {"Experiments"} } : main(clicked)
    \/ \E q \in questions, u \in users : create_or_update_answer(q, u, <<"a">>, TRUE)
    \/ \E button \in Buttons : experiments_page({}, button, NoFaults)
    \/ RunStart(FALSE, {}, NoFaults)
    \/ RunClear(TRUE)
    \/ \E followup_data \in { d \in GenResults :
                                 d # EmptyResult => \A svc \in services : svc.ai.configured } :
          RunGenerate(followup_data)
    \/ RunSave(TRUE)
    \/ RunFinish
    \/ RunReturn

SpecStartup == InitStartup /\ [][NextStartup]_vars

\* The session: navigation through main, logins with any pair, logouts.
Usernames == { "admin", "guest", "" }
Passwords == { "secret", "wrong", "" }

InitAuth ==
    /\ prompts = {1}
    /\ questions = {1}
    /\ users = {1, 2}
    /\ experiments = {1}
    /\ answers = {}
    /\ followup_questions = {}
    /\ experiment_cases = {}
    /\ next_id = [answers |-> 1, followup_questions |-> 1, experiment_cases |-> 1]
    /\ pc = "idle"
    /\ run = IdleRun
    /\ last = [op |-> "none"]
    /\ calls = <<>>
    /\ env \in { FullEnv, Unset({"AUTH_PASSWORD"}) }
    /\ services = {}
    /\ session_state = {}
    /\ upserting = [s \in Sessions |-> {}]

NextAuth ==
    \/ \E clicked \in { {} } \cup { {page} : page \in Pages } : main(clicked)
    \/ \E username \in Usernames, password \in Passwords : login(username, password)
    \/ logout

SpecAuth == InitAuth /\ [][NextAuth]_vars

\* Concurrent sessions: each create_or_update_answer is a SELECT and a write,
\* and the steps of the sessions' calls interleave in any order.
NextConcurrent ==
    \/ \E session \in Sessions, q \in questions, u \in users, t \in Texts :
          select_answer(session, q, u, t)
    \/ \E session \in Sessions : write_answer(session)

SpecConcurrent == Init /\ [][NextConcurrent]_vars

\* Two experiments of the one prompt over the same question and users.
InitPair ==
    /\ Configured
    /\ questions = {1}
    /\ users = {1, 2}
    /\ experiments = {1, 2}
    /\ answers = {}
    /\ followup_questions = {}
    /\ experiment_cases = {}
    /\ next_id = [answers |-> 1, followup_questions |-> 1, experiment_cases |-> 1]
    /\ pc = "idle"
    /\ run = IdleRun
    /\ last = [op |-> "none"]
    /\ calls = <<>>

NextPair ==
    \/ \E q \in questions, u \in users : create_or_update_answer(q, u, <<"a">>, TRUE)
    \/ \E toggled \in Toggles, button \in Buttons : experiments_page(toggled, button, NoFaults)
    \/ RunStart(FALSE, {}, NoFaults)
    \/ RunClear(TRUE)
    \/ \E followup_data \in GenResults : RunGenerate(followup_data)
    \/ RunSave(TRUE)
    \/ RunFinish
    \/ RunReturn
    \/ \E e \in experiments : results_page(e, FALSE, {})

SpecPair == InitPair /\ [][NextPair]_vars

\* Deletions of prompts and questions between runs: a DELETE inside
\* delete_prompt / delete_question may raise (the call then returns False);
\* every read succeeds.
DeleteRaises == { [NoDeleteFaults EXCEPT !.raises = table] : table \in 0..4 }

NextDelete ==
    \/ \E q \in questions, u \in users : create_or_update_answer(q, u, <<"a">>, TRUE)
    \/ \E button \in Buttons : experiments_page({}, button, NoFaults)
    \/ RunStart(FALSE, {}, NoFaults)
    \/ RunClear(TRUE)
    \/ RunGenerate(GoodResult)
    \/ RunSave(TRUE)
    \/ RunFinish
    \/ RunReturn
    \/ \E q \in questions, faults \in DeleteRaises : delete_question(q, faults)
    \/ \E p \in prompts, faults \in DeleteRaises : delete_prompt(p, faults)

SpecDelete == InitBatch /\ [][NextDelete]_vars

\* Deletions of questions and users under the cases of an experiment, every
\* gateway call succeeding, followed by runs and result views.
NextDropped ==
    \/ \E q \in questions, u \in users : create_or_update_answer(q, u, <<"a">>, TRUE)
    \/ \E button \in Buttons : experiments_page({}, button, NoFaults)
    \/ RunStart(FALSE, {}, NoFaults)
    \/ RunClear(TRUE)
    \/ RunGenerate(GoodResult)
    \/ RunSave(TRUE)
    \/ RunFinish
    \/ RunReturn
    \/ \E q \in questions : delete_question(q, NoDeleteFaults)
    \/ \E u \in users : delete_user(u, TRUE)

SpecDropped == InitBatch /\ [][NextDropped]_vars

\* The gateway operations one at a time, any read inside a delete returning
\* its sentinel.
DeleteReadFaults ==
    { [question_reads |-> question_reads, answer_reads |-> answer_reads, raises |-> 0] :
        question_reads \in BOOLEAN, answer_reads \in SUBSET questions }

NextOrphan ==
    \/ \E q \in questions, u \in users : create_or_update_answer(q, u, <<"a">>, TRUE)
    \/ \E button \in Buttons : experiments_page({}, button, NoFaults)
    \/ RunStart(FALSE, {}, NoFaults)
    \/ RunClear(TRUE)
    \/ RunGenerate(GoodResult)
    \/ RunSave(TRUE)
    \/ RunFinish
    \/ RunReturn
    \/ \E q \in questions, faults \in DeleteReadFaults : delete_question(q, faults)
    \/ \E p \in prompts, faults \in DeleteReadFaults : delete_prompt(p, faults)
    \/ \E u \in users : delete_user(u, TRUE)

SpecOrphan == Init /\ [][NextOrphan]_vars

\* Runs whose generation may also return a question of no text.
NextBlank ==
    \/ \E q \in questions, u \in users : create_or_update_answer(q, u, <<"a">>, TRUE)
    \/ \E button \in Buttons : experiments_page({}, button, NoFaults)
    \/ RunStart(FALSE, {}, NoFaults)
    \/ RunClear(TRUE)
    \/ \E followup_data \in GenResults \cup { BlankResult } : RunGenerate(followup_data)
    \/ RunSave(TRUE)
    \/ RunFinish
    \/ RunReturn

SpecBlank == Init /\ [][NextBlank]_vars

----------------------------------------------------------------------------
(* Properties *)

FollowupsOf(answer_id) == get_followups_by_answer(followup_questions, answer_id)

Running == pc \in {"clear", "generate", "save", "finish"} \/ (pc = "done" /\ run.status = "completed")
Completed == pc = "done" /\ run.status = "completed"
Processed == 1..Len(run.outcomes)

DeselectedAnswers ==
    { a \in answers : \E c \in experiment_cases :
          /\ c.experiment_id = run.experiment_id
          /\ c.is_selected = FALSE
          /\ c.question_id = a.question_id /\ c.user_id = a.user_id }

\* C8: no step of a run changes the follow-ups of the answer of a deselected
\* case of the experiment being run.
C8_DeselectedUntouched ==
    [][ (pc \in {"run_experiment", "clear", "generate", "save", "finish", "done"}) =>
            (\A a \in DeselectedAnswers :
                get_followups_by_answer(followup_questions', a.id) = FollowupsOf(a.id)) ]_vars

\* a completed run that processed a case while a deselected case of the same
\* experiment still has its follow-up from an earlier run
C8_Witness ==
    /\ Completed
    /\ \E a \in DeselectedAnswers :
          /\ FollowupsOf(a.id) # {}
          /\ \A f \in FollowupsOf(a.id) : f.id < run.first_new_id
    /\ \E k \in Processed : Saves(run.outcomes[k])


OneAnswerPerPair ==
    \A a, b \in answers :
        (a.question_id = b.question_id /\ a.user_id = b.user_id) => a = b

SecondSubmissionUpdates ==
    \A q \in questions, u \in users, t \in Texts :
        (AnswerRows(answers, q, u) # {} /\ create_or_update_answer(q, u, t, TRUE)) =>
            /\ Cardinality(answers') = Cardinality(answers)
            /\ {a.id : a \in AnswerRows(answers', q, u)} = {a.id : a \in AnswerRows(answers, q, u)}
            /\ \A a \in AnswerRows(answers', q, u) : a.answer_text = t
            /\ \A a \in answers' : (a.question_id # q \/ a.user_id # u) => a \in answers

\* C5: at most one Answer per (question_id, user_id), always; and a
\* submission for a pair that already has an answer keeps that row's id,
\* replaces its text and inserts no row.
C5_UpsertNeverDuplicates == []OneAnswerPerPair /\ [][SecondSubmissionUpdates]_vars

\* a second submission has replaced the text of the pair's only row
C5_Witness ==
    /\ last.op = "create_or_update_answer"
    /\ last.existed
    /\ Cardinality(answers) = 2
    /\ \E a \in answers :
          /\ a.question_id = last.question_id /\ a.user_id = last.user_id
          /\ last.returned = {a.id}
          /\ a.answer_text = <<"a">>
          /\ a.id < next_id.answers - 1

\* C6 (as claimed): the joined set is exactly the selected case rows of the
\* experiment whose answer exists with non-empty text.
C6_JoinExcludesEmptyAnswers ==
    (pc = "clear" /\ run.i = 1 /\ run.outcomes = <<>>) \/ (pc = "done" /\ run.status = "no_selected_cases") =>
        { run.case_results[k].case : k \in 1..Len(run.case_results) }
            = { c \in experiment_cases :
                    /\ c.experiment_id = run.experiment_id
                    /\ c.is_selected = TRUE
                    /\ \E a \in AnswerRows(answers, c.question_id, c.user_id) :
                           a.answer_text # <<>> }


NewFollowups == { f \in followup_questions : f.id >= run.first_new_id }

\* C2: a completed run over n joined cases reports n, has called the
\* generation once for each of the n cases, has written no follow-up for a case
\* whose generation returned the empty result, and exactly one for each other.
C2_FailureIsolation ==
    /\ pc \in {"finish", "done"} /\ run.status # "no_selected_cases" =>
          /\ run.total_cases = Len(run.case_results)
          /\ Len(run.outcomes) = run.total_cases
          /\ run.progress = run.total_cases
          /\ \A k \in 1..run.total_cases :
                Cardinality({ j \in 1..Len(calls) :
                                 /\ calls[j].fn = "generate_followup_questions"
                                 /\ calls[j].i = k }) = 1
          /\ \A k \in 1..run.total_cases :
                LET new == { f \in NewFollowups : f.answer_id = run.case_results[k].answer.id }
                IN IF run.outcomes[k] = EmptyResult THEN new = {} ELSE Cardinality(new) = 1
    /\ pc \in {"clear", "generate", "save"} =>
          /\ run.status = "running"
          /\ Len(run.outcomes) = IF pc = "save" THEN run.i ELSE run.i - 1

\* three selected cases, one failing generation: total 3, two follow-ups persisted
C2_Witness ==
    /\ Completed
    /\ run.total_cases = 3
    /\ Cardinality({ k \in 1..3 : run.outcomes[k] = EmptyResult }) = 1
    /\ run.outcomes[2] = EmptyResult
    /\ Cardinality(NewFollowups) = 2
    /\ Cardinality(followup_questions) = 2


\* the state a script run of the page ends in: last and calls are that run's
AfterPage ==
    /\ last.op = "experiments_page"
    /\ (pc = "idle" /\ last.button = {}) \/ pc = "run_experiment"

\* the calls a script run of the page made for one cell
CellCalls(experiment_id, key) ==
    { j \in 1..Len(calls) :
        /\ calls[j].fn \in {"create_experiment_case", "update_experiment_case_selection"}
        /\ calls[j].experiment_id = experiment_id
        /\ calls[j].key = key }

CaseRows(rows, experiment_id, key) ==
    { c \in rows : c.experiment_id = experiment_id /\ CaseKey(c) = key }

\* C3 (as claimed): at most one ExperimentCase row per (experiment_id,
\* question_id, user_id), whatever the gateway reads return.
C3_OneCasePerKey ==
    \A c, d \in experiment_cases :
        (c.experiment_id = d.experiment_id /\ CaseKey(c) = CaseKey(d)) => c = d

IsBlank(text) == \A i \in 1..Len(text) : text[i] = " "
Unanswered(key) == \A a \in AnswerRows(answers, key[1], key[2]) : IsBlank(a.answer_text)

C4_Render ==
    (pc \in {"idle", "rerun"} /\ last'.op = "experiments_page") =>
        /\ \A e \in experiments, key \in questions \X users :
              Unanswered(key) =>
                  /\ ~ \E b \in last'.boxes : b.experiment_id = e /\ b.key = key
                  /\ ~ \E j \in 1..Len(calls') :
                          calls'[j].experiment_id = e /\ calls'[j].key = key
                  /\ CaseRows(experiment_cases', e, key) = CaseRows(experiment_cases, e, key)
        /\ \A c \in experiment_cases' \ experiment_cases : ~Unanswered(CaseKey(c))

\* C4: a render offers no checkbox, makes no gateway write and changes no case
\* row for a pair without an answer or with a blank answer text, whatever rows
\* exist; every row a render creates or changes is of a pair with a non-blank answer.
C4_UnansweredNeverOffered == [][C4_Render]_vars

\* a render over a stored, selected case whose answer has become whitespace-only
C4_Witness ==
    /\ AfterPage
    /\ last.boxes = {}
    /\ calls = <<>>
    /\ \E c \in experiment_cases :
          /\ c.is_selected
          /\ \E a \in AnswerRows(answers, c.question_id, c.user_id) : a.answer_text = <<" ">>
    /\ \E key \in questions \X users : AnswerRows(answers, key[1], key[2]) = {}

\* C9 (as claimed): in a script run whose gateway calls all succeed, a toggled
\* checkbox with a case row updates that row in place to the new value and adds
\* no row; without a case row, a row with the new value is created.
C9_ToggleWrites ==
    (AfterPage /\ ~last.failed) =>
        \A b \in last.boxes :
            last.toggled = {<<b.experiment_id, b.key[1], b.key[2]>>} =>
                LET rows == CaseRows(experiment_cases, b.experiment_id, b.key)
                IN IF b.existing_case # {}
                   THEN /\ \E c \in rows, old \in b.existing_case :
                              c.id = old.id /\ c.is_selected = b.value
                        /\ \A c \in rows : c.id < last.first_id
                   ELSE \E c \in rows : c.is_selected = b.value

Effective(b) ==
    IF b.existing_case # {} THEN (CHOOSE c \in b.existing_case : TRUE).is_selected ELSE TRUE

----------------------------------------------------------------------------
(* Default selection and the run (C11) *)

\* the (question, user) pairs of the prompt with a non-blank stored answer
AnsweredPairs ==
    { k \in questions \X users :
        \E a \in answers : a.question_id = k[1] /\ a.user_id = k[2]
                              /\ strip(a.answer_text) # <<>> }

\* the pairs of the cases the current run was started over
RunPairs == { <<run.case_results[k].question_id, run.case_results[k].user_id>> :
                k \in 1..Len(run.case_results) }

\* no checkbox of the experiment being run has been changed: no row is deselected
NothingDeselected ==
    \A c \in experiment_cases : c.experiment_id = run.experiment_id => c.is_selected

----------------------------------------------------------------------------
(* The loop of the runner (C12) *)

\* the calls of the current script run to one gateway / service function
RunCalls(fn) == SelectSeq(calls, LAMBDA c : c.fn = fn)

InLoop == pc \in {"clear", "generate", "save", "finish"}

\* every case has been cleared and generated for exactly once, in the order of
\* the join; an insert is attempted at most once per case
C12_EachCaseOnce ==
    Completed =>
        /\ run.total_cases = Len(run.case_results)
        /\ run.total_cases >= 1
        /\ \A fn \in {"clear_followups_by_answer", "generate_followup_questions"} :
              /\ Len(RunCalls(fn)) = run.total_cases
              /\ \A k \in 1..run.total_cases :
                    /\ RunCalls(fn)[k].i = k
                    /\ RunCalls(fn)[k].answer_id = run.case_results[k].answer.id
        /\ LET creates == RunCalls("create_followup_question")
           IN \A k, l \in 1..Len(creates) : k < l => creates[k].i < creates[l].i

\* C12: a started run always reaches the completed state, whatever the deletes,
\* the generations and the inserts of its cases return, and has then processed
\* each joined case exactly once, in the order of the join, without a retry.
C12_RunTerminates ==
    /\ [] C12_EachCaseOnce
    /\ InLoop ~> Completed

\* a completed run over two cases in which a delete failed, a generation
\* returned the empty result and an insert failed
C12_Witness ==
    /\ Completed
    /\ run.total_cases = 2
    /\ run.outcomes[1] = EmptyResult
    /\ run.outcomes[2] = GoodResult
    /\ FollowupsOf(run.case_results[2].answer.id) = {}
    /\ \E f \in FollowupsOf(run.case_results[1].answer.id) : f.id < run.first_new_id

----------------------------------------------------------------------------
(* Progress and the completion report (C13) *)

\* the step that ends the k-th case exposes progress k of n
ProgressStep ==
    (pc = "save") =>
        /\ run'.progress = run.progress + 1
        /\ run'.progress = Len(run.outcomes)
        /\ run'.progress <= run.total_cases
        /\ run'.total_cases = Len(run.case_results)

\* progress is 0 before the first case ends and moves only when a case ends;
\* the report states the number of joined cases
ProgressState ==
    /\ (pc = "clear" /\ run.i = 1) => run.progress = 0
    /\ (InLoop /\ pc # "finish") => run.progress = run.i - 1
    /\ Completed =>
          /\ run.progress = run.total_cases
          /\ run.report = Len(run.case_results)
          /\ run.report >= 1

\* C13: in a run over n >= 1 joined cases the progress exposed after the k-th
\* case is k of n, rising by one per case from 1 to n, and the completion
\* report states n, however many cases produced a follow-up.
C13_ProgressAndReport ==
    /\ [][ProgressStep]_vars
    /\ [] ProgressState

\* a completed run over two cases that inserted no follow-up reports 2
C13_Witness ==
    /\ Completed
    /\ run.report = 2
    /\ run.progress = 2
    /\ next_id.followup_questions = run.first_new_id
    /\ run.outcomes[1] = GoodResult

----------------------------------------------------------------------------
(* The result view (C14) *)

\* the last script run was results_page; the store is as the page read it
AfterResults == last.op = "results_page"

\* the case rows of the viewed experiment whose question, user and answer exist
JoinableRows(rows) ==
    { c \in rows : /\ c.experiment_id = last.experiment_id
                    /\ CaseResultOf(c, {}) # {} }

\* C14 (as claimed): the view is over all joined cases of the experiment, so a
\* deselected case whose answer exists is in a group and in the case count.
C14_ViewOverAllCases ==
    AfterResults =>
        /\ \A c \in JoinableRows(experiment_cases) :
               \E k \in 1..Len(last.case_results) : last.case_results[k].case = c
        /\ \A v \in last.view :
               v.summary.total_cases = Cardinality(JoinableRows(experiment_cases))

\* C14 (amended): the view is over the joined cases of the selected rows only;
\* a deselected case is in no group and is not counted, whatever answer and
\* follow-ups it has.
C14_ViewOverSelectedCases ==
    AfterResults =>
        /\ { last.case_results[k].case : k \in 1..Len(last.case_results) }
              = JoinableRows(SelectedRows(last.experiment_id))
        /\ Len(last.case_results)
              = Cardinality(JoinableRows(SelectedRows(last.experiment_id)))
        /\ \A v \in last.view :
               /\ v.summary.total_cases
                     = Cardinality(JoinableRows(SelectedRows(last.experiment_id)))
               /\ \A i \in 1..Len(v.results_by_user) :
                     \A k \in 1..Len(v.results_by_user[i].cases) :
                        v.results_by_user[i].cases[k].case.is_selected = TRUE

\* the view of an experiment with a selected case and a deselected case whose
\* answer has a follow-up
C14_Witness ==
    /\ AfterResults
    /\ last.view # {}
    /\ \E c \in JoinableRows(experiment_cases) :
          /\ c.is_selected = FALSE
          /\ \E a \in answers : /\ a.question_id = c.question_id /\ a.user_id = c.user_id
                                  /\ FollowupsOf(a.id) # {}

----------------------------------------------------------------------------
(* Grouping (C15) *)

\* where a case result stands in the input of the view
InputIndex(cr) == CHOOSE k \in 1..Len(last.case_results) : last.case_results[k] = cr

\* first occurrence of a user in the input of the view
FirstOccurrence(user_id) ==
    CHOOSE k \in 1..Len(last.case_results) :
        /\ last.case_results[k].user_id = user_id
        /\ \A h \in 1..(k - 1) : last.case_results[h].user_id # user_id

GroupingOf(groups) ==
    /\ \A k \in 1..Len(last.case_results) :
          Cardinality({ <<i, j>> \in (1..Len(groups)) \X (1..Len(last.case_results)) :
                          /\ j <= Len(groups[i].cases)
                          /\ groups[i].cases[j] = last.case_results[k] }) = 1
    /\ \A i \in 1..Len(groups) :
          /\ groups[i].cases # <<>>
          /\ \A j \in 1..Len(groups[i].cases) :
                /\ groups[i].cases[j].user_id = groups[i].user_id
                /\ \E k \in 1..Len(last.case_results) :
                      last.case_results[k] = groups[i].cases[j]
          /\ \A a, b \in 1..Len(groups[i].cases) :
                a < b => InputIndex(groups[i].cases[a]) < InputIndex(groups[i].cases[b])
    /\ \A i, j \in 1..Len(groups) :
          i < j => FirstOccurrence(groups[i].user_id) < FirstOccurrence(groups[j].user_id)

\* C15: the groups of the view partition the input case list by user id; each
\* case is in exactly one group, that of its user; the groups stand in the order
\* in which their users first occur in the input; inside a group the cases keep
\* their input order.
C15_GroupingPartitions ==
    AfterResults => \A v \in last.view : GroupingOf(v.results_by_user)

\* a view whose input interleaves two users, the user with the higher id first
C15_Witness ==
    /\ AfterResults
    /\ \E v \in last.view :
          /\ Len(last.case_results) >= 3
          /\ last.case_results[1].user_id = 2
          /\ last.case_results[2].user_id = 1
          /\ last.case_results[3].user_id = 2
          /\ v.results_by_user[1].user_id = 2
          /\ Len(v.results_by_user[1].cases) = 2

----------------------------------------------------------------------------
(* Summary (C16) *)

\* the follow-ups stored for the answers of the input of the view
StoredFollowups ==
    { f \in followup_questions :
        \E k \in 1..Len(last.case_results) : f.answer_id = last.case_results[k].answer.id }

\* C16: for a non-empty joined case list the summary states the number of
\* distinct user ids, the number of distinct question ids, the length of the
\* list and the number of follow-ups of all its cases together; with the one
\* case (1, 1) and its one follow-up these are 1, 1, 1, 1.
C16_SummaryCounts ==
    AfterResults =>
        \A v \in last.view :
            /\ last.case_results # <<>>
            /\ v.summary.total_users
                  = Cardinality({ last.case_results[k].user_id :
                                    k \in 1..Len(last.case_results) })
            /\ v.summary.total_questions
                  = Cardinality({ last.case_results[k].question_id :
                                    k \in 1..Len(last.case_results) })
            /\ v.summary.total_cases = Len(last.case_results)
            /\ v.summary.total_followups = Cardinality(StoredFollowups)
            /\ (AnsweredPairs = { <<1, 1>> } /\ Cardinality(followup_questions) = 1) =>
                  v.summary = [total_users |-> 1, total_questions |-> 1,
                               total_cases |-> 1, total_followups |-> 1]

\* the scenario: only (1, 1) is answered, a run has given it its follow-up,
\* and the view reports 1, 1, 1, 1
C16_Witness ==
    /\ AfterResults
    /\ Cardinality(questions) = 2 /\ Cardinality(users) = 2
    /\ AnsweredPairs = { <<1, 1>> }
    /\ Cardinality(followup_questions) = 1
    /\ \E v \in last.view :
          v.summary = [total_users |-> 1, total_questions |-> 1,
                       total_cases |-> 1, total_followups |-> 1]

----------------------------------------------------------------------------
(* The empty result view (C17) *)

ZeroSummary == [total_users |-> 0, total_questions |-> 0,
                total_cases |-> 0, total_followups |-> 0]

\* C17 (as claimed): for an empty joined case list the view yields zero groups
\* and the summary counts 0, 0, 0, 0.
C17_EmptyViewReportsZeros ==
    (AfterResults /\ last.case_results = <<>>) =>
        \E v \in last.view : v.results_by_user = <<>> /\ v.summary = ZeroSummary

\* C17 (amended): the view has no error condition; for an empty joined case
\* list, the failed join included, it shows the notice that no results were
\* found and neither groups nor summary counts; groups and summary are
\* displayed exactly for a non-empty list, and no displayed count of cases is 0.
C17_EmptyViewWarns ==
    AfterResults =>
        /\ last.warning = (last.case_results = <<>>)
        /\ (last.view = {}) = (last.case_results = <<>>)
        /\ \A v \in last.view : v.summary.total_cases >= 1 /\ v.results_by_user # <<>>

\* the view of an experiment whose only selected case lost its answer read:
\* the joined list is empty although a selected case row exists
C17_Witness ==
    /\ AfterResults
    /\ last.case_results = <<>>
    /\ last.warning
    /\ SelectedRows(last.experiment_id) # {}

----------------------------------------------------------------------------
(* The generation call and its result (C18, C19, C20) *)

AfterGenerate == last.op = "generate_followup_questions"

\* C18: the model the service builds for a case carries the prompt's content
\* as system instruction and the prompt's model id and temperature, for every
\* temperature of the slider, 0.0 included.
C18_PromptSettingsUsed ==
    AfterGenerate =>
        \A r \in last.request :
            /\ r.system_instruction = last.prompt_context
            /\ r.model_name = last.model
            /\ r.temperature = last.temperature

\* the empty dict, or both keys with a question that ends with '?' unless empty
WellFormed(d) ==
    \/ d = {}
    \/ /\ HasKey(d, "question") /\ HasKey(d, "reason")
       /\ Cardinality(d) = 2
       /\ Get(d, "question") # <<>> => EndsWithMark(Get(d, "question"))

\* a response with no JSON document in it
NoJson(text) == \A i \in 1..Len(text) : text[i] \notin JsonDocuments

\* a response that is one JSON document lacking the members as strings
Incomplete(text) ==
    /\ json_loads(text) # {}
    /\ \A v \in json_loads(text) :
          \/ v.kind # "dict"
          \/ \E key \in { "question", "reason" } :
                \A m \in v.items : m[1] = key => m[2] # "str"

\* the stripped lines of a response
Lines(text) == { strip(Split(strip(text))[i]) : i \in 1..Len(Split(strip(text))) }

ScenarioResponse == << "Sure!", " ", FenceJson, " ", JsonScenario, " ", Fence >>

\* C20: the response "Sure! " followed by the fenced JSON object is parsed to
\* {question: "What next?", reason: "clarify"}.
C20_FencedAfterTextParses ==
    (AfterGenerate /\ last.failure = "none" /\ last.response_text = ScenarioResponse) =>
        last.returned = { <<"question", << "What next?" >>>>,
                          <<"reason", << "clarify" >>>> }

----------------------------------------------------------------------------
(* Start-up, the session protocol and the routing (C21, C23, C30) *)

\* the gateway and the generation client the pages were handed are usable
UsableServices ==
    \A svc \in services : svc.db.supabase[1] # None /\ svc.db.supabase[2] # None
                          /\ svc.ai.configured

\* C21: a missing credential of either service is fatal at start-up: main
\* routes to no page, and run_experiment is never invoked with an unusable
\* gateway or generation client.
C21_ConfigurationFailureIsFatal ==
    /\ (last.op = "main" /\ last.page # {}) => FullEnv = env
    /\ pc = "run_experiment" => Serving /\ UsableServices

Configured_pair(username, password) ==
    username = env.AUTH_USERNAME /\ password = env.AUTH_PASSWORD

\* C23: check_credentials accepts exactly the configured pair; the session
\* becomes authenticated only by a login with the configured pair and stays
\* so only until a logout; a failed login leaves the session state unchanged;
\* after logout the session is not authenticated and get_current_user is "".
C23_SessionProtocol ==
    [][ /\ (last'.op = "login") =>
              last'.returned = Configured_pair(last'.username, last'.password)
        /\ (is_authenticated(session_state') /\ ~is_authenticated(session_state)) =>
              (last'.op = "login" /\ Configured_pair(last'.username, last'.password))
        /\ (is_authenticated(session_state) /\ ~is_authenticated(session_state')) =>
              (last'.op = "logout")
        /\ (last'.op = "login" /\ ~last'.returned) => (session_state' = session_state)
        /\ (last'.op = "logout") =>
              (~is_authenticated(session_state') /\ get_current_user(session_state') = "")
      ]_vars

\* a login was accepted, and a login with the right username and a wrong
\* password was rejected in an authenticated session
C23_Witness ==
    /\ last.op = "login"
    /\ ~last.returned
    /\ last.username = env.AUTH_USERNAME
    /\ is_authenticated(session_state)
    /\ get_current_user(session_state) = "admin"

\* C30: main calls a page function only in a session in which
\* is_authenticated() is true.
C30_PagesNeedAuthentication ==
    (last.op = "main" /\ last.page # {}) => last.authenticated

----------------------------------------------------------------------------
(* Concurrent answer submissions (C24) *)

\* C24: two sessions' create_or_update_answer calls for the same pair, their
\* existence checks and writes interleaved in any order, never leave two
\* Answer rows for that pair.
C24_ConcurrentUpsertsNeverDuplicate ==
    \A q \in questions, u \in users : Cardinality(AnswerRows(answers, q, u)) <= 1

----------------------------------------------------------------------------
(* A failed regeneration (C25) *)

\* the processed cases whose answer had a follow-up when the run fetched it
\* and whose generation returned the empty result
FailedRegenerations ==
    { k \in Processed : /\ run.outcomes[k] = EmptyResult
                        /\ run.case_results[k].followup_questions # {} }

----------------------------------------------------------------------------
(* Runs of two experiments over shared answers (C26) *)

\* the answers of the selected cases of an experiment
SelectedAnswers(experiment_id) ==
    { a \in answers : \E c \in experiment_cases :
          /\ c.experiment_id = experiment_id
          /\ c.is_selected
          /\ c.question_id = a.question_id /\ c.user_id = a.user_id }

\* the follow-ups the results of an experiment list, per answer
ListedFollowups(experiment_id, rows) ==
    { <<a.id, get_followups_by_answer(rows, a.id)>> : a \in SelectedAnswers(experiment_id) }

\* C26: a run of experiment B clears and writes follow-ups of the answers of
\* B's selected cases only, and of each of them; the follow-ups of every
\* other answer, and so the follow-ups another experiment A lists for the
\* pairs B does not select, are unchanged by every step of the run.
C26_RunChangesOwnAnswersOnly ==
    /\ [][ (pc \in {"run_experiment", "clear", "generate", "save", "finish", "done"}) =>
              /\ \A a \in answers \ SelectedAnswers(run.experiment_id) :
                    get_followups_by_answer(followup_questions', a.id) = FollowupsOf(a.id)
              /\ \A e \in experiments :
                    SelectedAnswers(e) \cap SelectedAnswers(run.experiment_id) = {} =>
                        ListedFollowups(e, followup_questions')
                            = ListedFollowups(e, followup_questions) ]_vars
    /\ [](Completed =>
            /\ \A fn \in {"clear_followups_by_answer", "generate_followup_questions"} :
                  { RunCalls(fn)[j].answer_id : j \in 1..Len(RunCalls(fn)) }
                      = { a.id : a \in SelectedAnswers(run.experiment_id) }
            /\ { RunCalls("create_followup_question")[j].answer_id :
                      j \in 1..Len(RunCalls("create_followup_question")) }
                   \subseteq { a.id : a \in SelectedAnswers(run.experiment_id) }
            /\ \A a \in SelectedAnswers(run.experiment_id) :
                  \A f \in FollowupsOf(a.id) : f.id >= run.first_new_id)

\* experiment 2 was run over one pair that experiment 1 also selects: the
\* follow-up experiment 1 lists for that pair was replaced, the one it lists
\* for the pair experiment 2 does not select is still the old one
C26_Witness ==
    /\ Completed
    /\ run.experiment_id = 2
    /\ \E a \in SelectedAnswers(1) \cap SelectedAnswers(2) :
          /\ \E k \in Processed : /\ run.case_results[k].answer.id = a.id
                                  /\ run.case_results[k].followup_questions # {}
          /\ \E f \in FollowupsOf(a.id) : f.id >= run.first_new_id
    /\ \E a \in SelectedAnswers(1) \ SelectedAnswers(2) :
          /\ FollowupsOf(a.id) # {}
          /\ \A f \in FollowupsOf(a.id) : f.id < run.first_new_id

----------------------------------------------------------------------------
(* Deletions (C22, C27, C28) *)

\* the step is a delete_question / delete_prompt call that reported success
DeleteSucceeds(op) ==
    /\ last'.op = op
    /\ last'.returned
    /\ IF op = "delete_prompt" THEN last'.id \in prompts /\ last'.id \notin prompts'
       ELSE last'.id \in questions /\ last'.id \notin questions'

\* the questions a successful delete removes: all of the prompt, or the one
Removed(op) == IF op = "delete_prompt" THEN questions ELSE { last'.id }

C27_FollowupsReferToAnswers ==
    \A f \in followup_questions : \E a \in answers : a.id = f.answer_id

\* a case row whose question or user is no longer in the store
Orphaned(c) == c.question_id \notin questions \/ c.user_id \notin users

\* the selected rows of the experiment being run that still have their
\* question, their user and an answer
Remaining ==
    { c \in experiment_cases : /\ c.experiment_id = run.experiment_id
                               /\ c.is_selected
                               /\ ~Orphaned(c)
                               /\ AnswerRows(answers, c.question_id, c.user_id) # {} }

\* C28: a run over selected cases some of whose question or user was deleted
\* joins and processes exactly the remaining cases, each once, and takes the
\* early return only when none remains.
C28_OrphanedCasesDropped ==
    /\ (InLoop \/ Completed) =>
          /\ { run.case_results[k].case : k \in 1..Len(run.case_results) } = Remaining
          /\ Len(run.case_results) = Cardinality(Remaining)
    /\ Completed =>
          \A fn \in {"clear_followups_by_answer", "generate_followup_questions"} :
              /\ Len(RunCalls(fn)) = Cardinality(Remaining)
              /\ { RunCalls(fn)[j].answer_id : j \in 1..Len(RunCalls(fn)) }
                    = { a.id : a \in UNION { AnswerRows(answers, c.question_id, c.user_id) :
                                               c \in Remaining } }
    /\ (pc = "done" /\ run.status = "no_selected_cases") => Remaining = {}

\* a run was completed over the one remaining case, with a selected case
\* whose question was deleted and one whose user was deleted
C28_Witness ==
    /\ Completed
    /\ Remaining # {}
    /\ \E c \in SelectedRows(run.experiment_id) : c.question_id \notin questions
    /\ \E c \in SelectedRows(run.experiment_id) :
          c.question_id \in questions /\ c.user_id \notin users

----------------------------------------------------------------------------
(* Generation results with an empty question (C29) *)

====
